---- MODULE Spec2Model ----
(***************************************************************************)
(* Model of ink-wrapper-types (src/ink-wrapper-types/src/lib.rs): the call *)
(* descriptors, the SignedConnection capability, the InkLangError wrapper  *)
(* and the event demultiplexer ContractEvents::for_contract.               *)
(*                                                                         *)
(* Three specifications share the variables:                               *)
(*   Spec        one caller building descriptors and using a connection    *)
(*   SpecEvents  for_contract applied to every bounded event collection    *)
(*   SpecShared  several callers iterating one shared collection           *)
(***************************************************************************)
EXTENDS Integers, Sequences, FiniteSets, TLC

VARIABLES
    call,       \* the call descriptor the caller currently owns
    op,         \* name of the last operation performed
    arg,        \* the inputs that operation was given
    fut,        \* the pending future of an upload call
    outcome,    \* what the last connection operation returned
    err,        \* an InkLangError built by the caller
    text,       \* the rendering of err
    transport,  \* number of requests handed to the transport
    overrides,  \* does the implementor override upload?
    events,     \* ContractEvents.events
    events0,    \* the collection as constructed
    src,        \* the source of the last for_contract call
    result,     \* what that call returned
    iter        \* per caller: the position of its for_contract iteration

callVars == <<call, op, arg, fut, outcome, err, text, transport, overrides>>
eventVars == <<events, events0, src, result, iter>>
vars == <<call, op, arg, fut, outcome, err, text, transport, overrides,
          events, events0, src, result, iter>>

(***************************************************************************)
(* Bounds                                                                  *)
(***************************************************************************)
MaxByte == 1
MaxDataLen == 1
NumLangErrors == 2
MaxSubmits == 2
MaxEvents == 3
SharedMaxEvents == 2
NumCallers == 2

(***************************************************************************)
(* Values                                                                  *)
(***************************************************************************)
ArrayLen == 32

Byte == 0..MaxByte
Bytes == UNION {[1..n -> Byte] : n \in 0..MaxDataLen}

\* ink_primitives::AccountId, a [u8; 32]; two addresses
AccountId(b) == [i \in 1..ArrayLen |-> b]
AccountIds == {AccountId(1), AccountId(2)}

\* code_hash: [u8; 32]; two hashes
CodeHashes == {[i \in 1..ArrayLen |-> 7], [i \in 1..ArrayLen |-> 9]}

\* ink_primitives::LangError, a non-exhaustive enum of discriminants;
\* discriminant 1 is CouldNotReadInput
LangErrors == 1..NumLangErrors

None == [kind |-> "None"]

(***************************************************************************)
(* Call descriptors                                                        *)
(***************************************************************************)
InstantiateCall_new_SaltFromData(code_hash, data) ==
    [kind |-> "InstantiateCall", code_hash |-> code_hash, data |-> data,
     salt |-> data \o <<0>>]

InstantiateCall_new(code_hash, data) ==
    [kind |-> "InstantiateCall", code_hash |-> code_hash, data |-> data,
     salt |-> <<>>]

with_salt_Append(self, salt) == [self EXCEPT !.salt = self.salt \o salt]

with_salt(self, salt) == [self EXCEPT !.salt = salt]

ExecCall_new(account_id, data) ==
    [kind |-> "ExecCall", account_id |-> account_id, data |-> data]

ReadCall_new_Truncated(account_id, data) ==
    [kind |-> "ReadCall", account_id |-> account_id,
     data |-> IF data = <<>> THEN data ELSE Tail(data)]

ReadCall_new(account_id, data) ==
    [kind |-> "ReadCall", account_id |-> account_id, data |-> data]

(***************************************************************************)
(* InkLangError                                                            *)
(***************************************************************************)
\* #[derive(Debug)] of LangError
DebugLangError(e) ==
    IF e = 1 THEN "CouldNotReadInput" ELSE "Variant" \o ToString(e)

InkLangError_from(e) == [kind |-> "InkLangError", inner |-> e]

InkLangError_fmt_NoCode(self) == "InkLangError"

InkLangError_fmt(self) == "InkLangError(" \o DebugLangError(self.inner) \o ")"

(***************************************************************************)
(* SignedConnection                                                        *)
(***************************************************************************)
\* what the platform answers to a submitted request
PlatformSignals ==
    {[kind |-> "SubmitFailed"]}
    \cup {[kind |-> "Finalized", account_id |-> a] : a \in AccountIds}
    \cup {[kind |-> "RoutingFailure", code |-> c] : c \in LangErrors}

Ok(v) == [kind |-> "Ok", value |-> v]
TransportErr == [kind |-> "Err", class |-> "transport"]
DispatchErr(e) == [kind |-> "Err", class |-> "dispatch", error |-> e]
Panic(m) == [kind |-> "Panic", message |-> m]

upload_ReturnsHandle(wasm, code_hash) ==
    [outcome |-> Ok([tx |-> 0]), submits |-> 1]

\* the default body: unimplemented!()
upload(wasm, code_hash) ==
    [outcome |-> Panic("not implemented"), submits |-> 0]

\* an implementor's own upload
upload_override(wasm, code_hash, sig, tx) ==
    [outcome |-> IF sig.kind = "Finalized" THEN Ok([tx |-> tx])
                 ELSE TransportErr,
     submits |-> 1]

instantiate_Conflated(c, sig) ==
    IF sig.kind = "Finalized" THEN Ok([account_id |-> sig.account_id])
    ELSE TransportErr

instantiate(c, sig) ==
    CASE sig.kind = "SubmitFailed" -> TransportErr
      [] sig.kind = "RoutingFailure" -> DispatchErr(InkLangError_from(sig.code))
      [] sig.kind = "Finalized" -> Ok([account_id |-> sig.account_id])

exec(c, sig, tx) ==
    CASE sig.kind = "SubmitFailed" -> TransportErr
      [] sig.kind = "RoutingFailure" -> DispatchErr(InkLangError_from(sig.code))
      [] sig.kind = "Finalized" -> Ok([tx |-> tx])

(***************************************************************************)
(* The caller of Spec                                                      *)
(***************************************************************************)
Idle ==
    /\ call = None /\ fut = None /\ outcome = None /\ err = None

InitCalls ==
    /\ call = None /\ op = "none" /\ arg = None /\ fut = None
    /\ outcome = None /\ err = None /\ text = None /\ transport = 0

InitEventsIdle ==
    /\ events = <<>> /\ events0 = <<>> /\ src = None /\ result = None
    /\ iter = [c \in 1..NumCallers |-> None]

Init ==
    /\ InitCalls
    /\ overrides \in BOOLEAN
    /\ InitEventsIdle

InstantiateNew ==
    /\ Idle
    /\ \E h \in CodeHashes, d \in Bytes :
        /\ call' = InstantiateCall_new(h, d)
        /\ arg' = [code_hash |-> h, data |-> d, salt |-> <<>>]
    /\ op' = "InstantiateCall::new"
    /\ UNCHANGED <<fut, outcome, err, text, transport, overrides>>
    /\ UNCHANGED eventVars

WithSalt ==
    /\ call.kind = "InstantiateCall"
    /\ \E s \in Bytes :
        /\ call' = with_salt(call, s)
        /\ arg' = [code_hash |-> arg.code_hash, data |-> arg.data, salt |-> s,
                   prev |-> call.salt]
    /\ op' = "with_salt"
    /\ UNCHANGED <<fut, outcome, err, text, transport, overrides>>
    /\ UNCHANGED eventVars

ExecNew ==
    /\ Idle
    /\ \E a \in AccountIds, d \in Bytes :
        /\ call' = ExecCall_new(a, d)
        /\ arg' = [account_id |-> a, data |-> d]
    /\ op' = "ExecCall::new"
    /\ UNCHANGED <<fut, outcome, err, text, transport, overrides>>
    /\ UNCHANGED eventVars

ReadNew ==
    /\ Idle
    /\ \E a \in AccountIds, d \in Bytes :
        /\ call' = ReadCall_new(a, d)
        /\ arg' = [account_id |-> a, data |-> d]
    /\ op' = "ReadCall::new"
    /\ UNCHANGED <<fut, outcome, err, text, transport, overrides>>
    /\ UNCHANGED eventVars

Instantiate ==
    /\ call.kind = "InstantiateCall"
    /\ transport < MaxSubmits
    /\ \E sig \in PlatformSignals :
        /\ outcome' = instantiate(call, sig)
        /\ arg' = [signal |-> sig]
    /\ call' = None
    /\ op' = "instantiate"
    /\ transport' = transport + 1
    /\ UNCHANGED <<fut, err, text, overrides>>
    /\ UNCHANGED eventVars

Exec ==
    /\ call.kind = "ExecCall"
    /\ transport < MaxSubmits
    /\ \E sig \in PlatformSignals :
        /\ outcome' = exec(call, sig, transport + 1)
        /\ arg' = [signal |-> sig]
    /\ call' = None
    /\ op' = "exec"
    /\ transport' = transport + 1
    /\ UNCHANGED <<fut, err, text, overrides>>
    /\ UNCHANGED eventVars

\* calling the async fn only creates its future
UploadCall ==
    /\ Idle
    /\ \E w \in Bytes, h \in Bytes :
        fut' = [kind |-> "upload", wasm |-> w, code_hash |-> h]
    /\ op' = "upload"
    /\ arg' = [transport |-> transport]
    /\ UNCHANGED <<call, outcome, err, text, transport, overrides>>
    /\ UNCHANGED eventVars

\* awaiting the future runs the body
UploadAwait ==
    /\ fut.kind = "upload"
    /\ IF overrides
       THEN /\ transport < MaxSubmits
            /\ \E sig \in PlatformSignals :
                LET r == upload_override(fut.wasm, fut.code_hash, sig, transport + 1)
                IN  /\ outcome' = r.outcome
                    /\ transport' = transport + r.submits
       ELSE LET r == upload(fut.wasm, fut.code_hash)
            IN  /\ outcome' = r.outcome
                /\ transport' = transport + r.submits
    /\ fut' = None
    /\ op' = "upload.await"
    /\ UNCHANGED <<call, arg, err, text, overrides>>
    /\ UNCHANGED eventVars

Wrap ==
    /\ Idle
    /\ \E e \in LangErrors :
        /\ err' = InkLangError_from(e)
        /\ arg' = [code |-> e]
    /\ op' = "InkLangError::from"
    /\ UNCHANGED <<call, fut, outcome, text, transport, overrides>>
    /\ UNCHANGED eventVars

Render ==
    /\ err # None
    /\ text = None
    /\ text' = [kind |-> "String", s |-> InkLangError_fmt(err)]
    /\ op' = "to_string"
    /\ UNCHANGED <<call, arg, fut, outcome, err, transport, overrides>>
    /\ UNCHANGED eventVars

\* the caller drops what it holds
Drop ==
    /\ ~Idle
    /\ call' = None /\ fut' = None /\ outcome' = None /\ err' = None
    /\ text' = None /\ arg' = None
    /\ op' = "none"
    /\ UNCHANGED <<transport, overrides>>
    /\ UNCHANGED eventVars

Next ==
    \/ InstantiateNew
    \/ WithSalt
    \/ ExecNew
    \/ ReadNew
    \/ Instantiate
    \/ Exec
    \/ UploadCall
    \/ UploadAwait
    \/ Wrap
    \/ Render
    \/ Drop

Spec == Init /\ [][Next]_vars

(***************************************************************************)
(* Events                                                                  *)
(***************************************************************************)
\* ContractEvent
ContractEvent(account_id, data) == [account_id |-> account_id, data |-> data]

\* payloads covering every path of decode: no input, each variant, a variant
\* cut short, an unknown variant index, input left over
EventPayloads == {<<>>, <<0>>, <<1>>, <<1, 0>>, <<2>>, <<0, 2>>}

ContractEventValues ==
    {ContractEvent(a, d) : a \in AccountIds, d \in EventPayloads}

EventCollections(n) == UNION {[1..k -> ContractEventValues] : k \in 0..n}

\* EventSource: a Copy wrapper that converts into the AccountId it holds;
\* two wrappers may hold the same AccountId
Wrappers == {"Token", "Vault"}
Sources == [contract : Wrappers, account_id : AccountIds]

into(contract) == contract.account_id

\* C::Event::decode(&mut e.data.as_slice()) for an event enum with the unit
\* variant 0 and the variant 1 holding one u8; input left over after the
\* value is ignored
decode(data) ==
    IF Len(data) = 0
    THEN [kind |-> "Err", error |-> "Not enough data to fill buffer"]
    ELSE CASE data[1] = 0 -> [kind |-> "Ok", value |-> [variant |-> "Created"]]
           [] data[1] = 1 ->
                IF Len(data) >= 2
                THEN [kind |-> "Ok",
                      value |-> [variant |-> "Updated", field |-> data[2]]]
                ELSE [kind |-> "Err", error |-> "Not enough data to fill buffer"]
           [] OTHER -> [kind |-> "Err", error |-> "Invalid variant index"]

\* .filter(|e| e.account_id == contract.into())
Filter(self, contract) ==
    SelectSeq(self, LAMBDA e : e.account_id = into(contract))

\* .map(|e| C::Event::decode(&mut e.data.as_slice())).collect()
MapDecode(s) == [i \in 1..Len(s) |-> decode(s[i].data)]

Reverse(s) == [i \in 1..Len(s) |-> s[Len(s) + 1 - i]]

RECURSIVE TakeWhileOk(_)
TakeWhileOk(s) ==
    IF s = <<>> \/ Head(s).kind # "Ok" THEN <<>>
    ELSE <<Head(s)>> \o TakeWhileOk(Tail(s))

for_contract_Reversed(self, contract) ==
    Reverse(MapDecode(Filter(self, contract)))

for_contract_StopAtError(self, contract) ==
    TakeWhileOk(MapDecode(Filter(self, contract)))

for_contract_NoFilter(self, contract) == MapDecode(self)

for_contract(self, contract) == MapDecode(Filter(self, contract))

Vec(v) == [kind |-> "Vec", v |-> v]

InitCallsIdle ==
    /\ InitCalls
    /\ overrides = FALSE

InitEvents ==
    /\ InitCallsIdle
    /\ events \in EventCollections(MaxEvents)
    /\ events0 = events
    /\ src = None
    /\ result = None
    /\ iter = [c \in 1..NumCallers |-> None]

ForContract ==
    /\ \E c \in Sources :
        /\ src' = c
        /\ result' = Vec(for_contract(events, c))
    /\ UNCHANGED <<events, events0, iter>>
    /\ UNCHANGED callVars

\* the Vec returned by for_contract is dropped
DropResult ==
    /\ result # None
    /\ result' = None
    /\ src' = None
    /\ UNCHANGED <<events, events0, iter>>
    /\ UNCHANGED callVars

NextEvents ==
    \/ ForContract
    \/ DropResult

SpecEvents == InitEvents /\ [][NextEvents]_vars

(***************************************************************************)
(* Several callers sharing one collection by reference                     *)
(***************************************************************************)
Callers == 1..NumCallers

\* one wrapper per address
SharedSources == {s \in Sources : s.contract = "Token"}

\* one turn of the iterator chain: take the next event, filter it, decode it
for_contract_next_Take(self, st) ==
    LET e == self[st.pos + 1]
    IN  [events |-> [self EXCEPT ![st.pos + 1].data = <<>>],
         st |-> [st EXCEPT !.pos = st.pos + 1,
                           !.out = IF e.account_id = into(st.contract)
                                   THEN Append(st.out, decode(e.data))
                                   ELSE st.out]]

for_contract_next(self, st) ==
    LET e == self[st.pos + 1]
    IN  [events |-> self,
         st |-> [st EXCEPT !.pos = st.pos + 1,
                           !.out = IF e.account_id = into(st.contract)
                                   THEN Append(st.out, decode(e.data))
                                   ELSE st.out]]

InitShared ==
    /\ InitCallsIdle
    /\ events \in EventCollections(SharedMaxEvents)
    /\ events0 = events
    /\ src = None
    /\ result = None
    /\ iter = [c \in Callers |-> None]

Begin(c) ==
    /\ iter[c] = None
    /\ \E s \in SharedSources :
        iter' = [iter EXCEPT ![c] =
                    [kind |-> "Iter", contract |-> s, pos |-> 0, out |-> <<>>]]
    /\ UNCHANGED <<events, events0, src, result>>
    /\ UNCHANGED callVars

Step(c) ==
    /\ iter[c].kind = "Iter"
    /\ iter[c].pos < Len(events)
    /\ LET r == for_contract_next(events, iter[c])
       IN  /\ events' = r.events
           /\ iter' = [iter EXCEPT ![c] = r.st]
    /\ UNCHANGED <<events0, src, result>>
    /\ UNCHANGED callVars

Return(c) ==
    /\ iter[c].kind = "Iter"
    /\ iter[c].pos = Len(events)
    /\ iter' = [iter EXCEPT ![c] =
                    [kind |-> "Done", contract |-> iter[c].contract,
                     out |-> iter[c].out]]
    /\ UNCHANGED <<events, events0, src, result>>
    /\ UNCHANGED callVars

Release(c) ==
    /\ iter[c].kind = "Done"
    /\ iter' = [iter EXCEPT ![c] = None]
    /\ UNCHANGED <<events, events0, src, result>>
    /\ UNCHANGED callVars

NextShared ==
    \/ \E c \in Callers : Begin(c)
    \/ \E c \in Callers : Step(c)
    \/ \E c \in Callers : Return(c)
    \/ \E c \in Callers : Release(c)

SpecShared == InitShared /\ [][NextShared]_vars

(***************************************************************************)
(* Properties of Spec                                                      *)
(***************************************************************************)

\* C3: InstantiateCall::new(h, d) yields {code_hash = h, data = d, salt = empty}
\* and a following with_salt(s) yields {code_hash = h, data = d, salt = s},
\* for every h, d and s (the empty s included): nothing is rejected.
C3_InstantiateBuilders ==
    /\ op = "InstantiateCall::new" =>
          call = [kind |-> "InstantiateCall", code_hash |-> arg.code_hash,
                  data |-> arg.data, salt |-> <<>>]
    /\ op = "with_salt" =>
          call = [kind |-> "InstantiateCall", code_hash |-> arg.code_hash,
                  data |-> arg.data, salt |-> arg.salt]

C3_Witness ==
    /\ op = "with_salt"
    /\ arg.prev = <<>>
    /\ arg.salt # <<>>
    /\ arg.data # <<>>
    /\ call.salt = arg.salt

\* C4: on an implementor that does not override upload, an awaited upload
\* ends in the "not implemented" failure, hands nothing to the transport and
\* never returns a transaction handle.
C4_UploadUnsupported ==
    (op = "upload.await" /\ ~overrides) =>
        /\ outcome = Panic("not implemented")
        /\ outcome.kind # "Ok"
        /\ transport = arg.transport

C4_Witness ==
    /\ op = "upload.await"
    /\ ~overrides
    /\ outcome.kind = "Panic"

\* C5: when instantiate or exec is finalized by the transport and the callee
\* reports a routing failure, the result is a dispatch error carrying that
\* code and not a transport error; a submission failure is a transport error;
\* the two are different results.
C5_DispatchNotTransport ==
    (op \in {"instantiate", "exec"}) =>
        /\ arg.signal.kind = "RoutingFailure" =>
              /\ outcome.kind = "Err"
              /\ outcome.class = "dispatch"
              /\ outcome.error.inner = arg.signal.code
              /\ outcome # TransportErr
        /\ arg.signal.kind = "SubmitFailed" =>
              /\ outcome = TransportErr
              /\ outcome.class # "dispatch"

C5_Witness ==
    /\ op = "instantiate"
    /\ arg.signal.kind = "RoutingFailure"
    /\ outcome.kind = "Err"
    /\ outcome.class = "dispatch"

\* C6 as stated: the wrapper carries exactly the code, wrappers are equal
\* exactly when their codes are, and the rendering is "DispatchError(<code>)".
C6_RendersDispatchError ==
    /\ err # None =>
          /\ err = [kind |-> "InkLangError", inner |-> arg.code]
          /\ \A c \in LangErrors :
                (err = InkLangError_from(c)) <=> (arg.code = c)
    /\ text # None =>
          text.s = "DispatchError(" \o DebugLangError(arg.code) \o ")"

\* C6 amended: the wrapper carries exactly the code, wrappers are equal
\* exactly when their codes are, equal wrappers render the same text, and the
\* rendering is "InkLangError(<code>)", a function of the code alone.
C6_RendersInkLangError ==
    /\ err # None =>
          /\ err = [kind |-> "InkLangError", inner |-> arg.code]
          /\ \A c \in LangErrors :
                (err = InkLangError_from(c)) <=> (arg.code = c)
    /\ text # None =>
          /\ text.s = "InkLangError(" \o DebugLangError(arg.code) \o ")"
          /\ \A c \in LangErrors :
                (InkLangError_from(c) = err) =>
                    InkLangError_fmt(InkLangError_from(c)) = text.s

C6_Witness ==
    /\ op = "to_string"
    /\ err # None
    /\ arg.code # 1
    /\ text # None

\* C7: ExecCall::new(a, d) and ReadCall::new(a, d) yield a descriptor with
\* account_id = a and data = d, of the same length and byte for byte.
C7_TransparentCarriers ==
    (op \in {"ExecCall::new", "ReadCall::new"}) =>
        /\ call.kind = (IF op = "ExecCall::new" THEN "ExecCall" ELSE "ReadCall")
        /\ call.account_id = arg.account_id
        /\ Len(call.data) = Len(arg.data)
        /\ \A i \in 1..Len(arg.data) : call.data[i] = arg.data[i]
        /\ DOMAIN call = {"kind", "account_id", "data"}

C7_Witness ==
    /\ op = "ReadCall::new"
    /\ Len(arg.data) > 0
    /\ call.data = arg.data

\* C9: with_salt changes only the salt: code_hash and data are those of the
\* descriptor it was applied to, and the result does not depend on the salt
\* the descriptor had before (the last salt wins; applying the same salt
\* twice is the same as applying it once).
C9_WithSaltFrame ==
    [][op' = "with_salt" =>
          /\ call'.code_hash = call.code_hash
          /\ call'.data = call.data
          /\ call'.kind = call.kind
          /\ \A s0 \in Bytes :
                with_salt([call EXCEPT !.salt = s0], arg'.salt) = call'
          /\ with_salt(call', arg'.salt) = call']_vars

C9_Witness ==
    /\ op = "with_salt"
    /\ arg.prev # <<>>
    /\ arg.prev # arg.salt
    /\ call.salt = arg.salt

(***************************************************************************)
(* Properties of SpecEvents and SpecShared                                 *)
(***************************************************************************)
MatchIdx(evs, c) == {i \in 1..Len(evs) : evs[i].account_id = c.account_id}

Rank(evs, c, i) == Cardinality({j \in MatchIdx(evs, c) : j <= i})

\* C1: for_contract(C) returns one result for each event whose account_id is
\* C's AccountId and for no other event, in the order of those events in the
\* collection; for [(A,b1),(B,b2),(A,b3)] it yields [decode(b1), decode(b3)]
\* for A and [decode(b2)] for B.
C1_ExactSubsetInOrder ==
    result # None =>
        /\ Len(result.v) = Cardinality(MatchIdx(events, src))
        /\ \A i \in MatchIdx(events, src) :
              result.v[Rank(events, src, i)] = decode(events[i].data)
        /\ (/\ Len(events) = 3
            /\ events[1].account_id = events[3].account_id
            /\ events[1].account_id # events[2].account_id) =>
              /\ src.account_id = events[1].account_id =>
                    result.v = <<decode(events[1].data), decode(events[3].data)>>
              /\ src.account_id = events[2].account_id =>
                    result.v = <<decode(events[2].data)>>

C1_Witness ==
    /\ result # None
    /\ Len(events) = 3
    /\ events[1].account_id = src.account_id
    /\ events[2].account_id # src.account_id
    /\ events[3].account_id = src.account_id
    /\ events[1].data # events[3].data
    /\ result.v = <<decode(events[1].data), decode(events[3].data)>>
    /\ result.v[1] # result.v[2]

\* C2: for_contract returns one outcome, success or decode failure, per
\* matching event; replacing the payload of one matching event by an
\* undecodable one changes only the outcome at that event's position.
C2_PerEventOutcome ==
    result # None =>
        /\ Len(result.v) = Cardinality(MatchIdx(events, src))
        /\ \A k \in 1..Len(result.v) : result.v[k].kind \in {"Ok", "Err"}
        /\ \A i \in MatchIdx(events, src) :
              \A b \in EventPayloads :
                 decode(b).kind = "Err" =>
                    LET r2 == for_contract([events EXCEPT ![i].data = b], src)
                        k  == Rank(events, src, i)
                    IN  /\ Len(r2) = Len(result.v)
                        /\ r2[k] = decode(b)
                        /\ \A j \in 1..Len(r2) : j # k => r2[j] = result.v[j]

C2_Witness ==
    /\ result # None
    /\ Len(result.v) >= 3
    /\ result.v[1].kind = "Ok"
    /\ result.v[2].kind = "Err"
    /\ result.v[3].kind = "Ok"

RECURSIVE SumLen(_, _)
SumLen(evs, S) ==
    IF S = {} THEN 0
    ELSE LET c == CHOOSE x \in S : TRUE
         IN  Len(for_contract(evs, c)) + SumLen(evs, S \ {c})

DistinctIds(S) == \A c, d \in S : c # d => into(c) # into(d)

\* C10: each event contributes a result to for_contract(C) for exactly the
\* sources C with its account id; over sources with pairwise distinct
\* account ids the result lengths sum to at most |E|, and to |E| when they
\* cover every account id of E; with no matching event the result is empty.
C10_ViewsPartition ==
    /\ \A c \in Sources :
          Len(for_contract(events, c)) = Cardinality(MatchIdx(events, c))
    /\ \A S \in SUBSET Sources :
          DistinctIds(S) =>
             /\ SumLen(events, S) <= Len(events)
             /\ (\A i \in 1..Len(events) :
                    \E c \in S : into(c) = events[i].account_id) =>
                   SumLen(events, S) = Len(events)
    /\ (result # None /\ MatchIdx(events, src) = {}) => result.v = <<>>

C10_Witness ==
    /\ result # None
    /\ Len(events) >= 2
    /\ result.v = <<>>
    /\ \E S \in SUBSET Sources :
          /\ DistinctIds(S)
          /\ src \in S
          /\ SumLen(events, S) = Len(events)

\* C8: for_contract leaves the shared collection as it was constructed, under
\* every interleaving of the callers' iterations, and each call returns what
\* it returns when run alone on that collection.
C8_SharedCollectionIntact ==
    /\ events = events0
    /\ \A c \in Callers :
          iter[c].kind = "Done" =>
             iter[c].out = for_contract(events0, iter[c].contract)

C8_Witness ==
    /\ Len(events) >= 2
    /\ iter[1].kind = "Done"
    /\ Len(iter[1].out) >= 1
    /\ iter[2].kind = "Iter"
    /\ iter[2].pos >= 1
    /\ iter[2].pos < Len(events)
    /\ iter[2].contract.account_id = iter[1].contract.account_id

====
